---- MODULE Spec2Model ----
(***************************************************************************)
(* Model of src/train.py: the balanced loaders built by                    *)
(* calculateDataLoaderTrain, the batch loop of trainEpoch and the          *)
(* epoch/validation/checkpoint loop of train_model.                        *)
(*                                                                         *)
(* Accuracy and sensitivity are Python floats; they are modelled in        *)
(* hundredths (0.80 is 80).  The minority fraction covid_percent is the    *)
(* rational covid_num / FracDen.                                           *)
(***************************************************************************)
EXTENDS Integers, Sequences, FiniteSets, TLC

\* ------------------------------------------------------------------ bounds
MaxEpochs == 2      \* args_dict.epochs ranges over 0..MaxEpochs
MaxBatch == 4       \* args_dict.batch ranges over 1..MaxBatch
FracDen == 4        \* args_dict.covid_percent ranges over {0/FracDen .. FracDen/FracDen}
MaxPool == 5        \* samples in the non-covid / covid training pool: 1..MaxPool
MaxRuns == 2        \* process starts: the first run and MaxRuns - 1 resumed ones

\* ------------------------------------------------------- program constants
AccThreshold == 80  \* train.py:127, "accuracy >= 0.80"

\* Values eval.valEpoch may hand back (hundredths).  train_model takes the two
\* floats as they come, so values outside [0, 1] are among them.
MetricValues == {-5, 0, 79, 80, 85, 95, 100, 105}

Models == {"covidnet", "resnet", "vgg"}
ImageChannels == {1, 3}

VARIABLES
    args_dict,          \* configuration: model, batch, covid_num, epochs, resume
    data,               \* the training pools: n_non_covid, n_covid, channels
    pc,                 \* position in train_model
    error,              \* the exception that ended the process, "" if none
    model,              \* the local `model`: "unbound", "CovidNet" or "ResNet"
    printed,            \* "model selected: ..." was printed
    dl,                 \* the two DataLoaders: their batch_size arguments
    te,                 \* locals of the running trainEpoch call
    epoch,              \* loop index of train_model (epochs completed at the loop head)
    best_sensit,
    pat_track,
    accuracy,
    sensitivity_covid,
    checkpoint,         \* the checkpoint file
    saves,              \* calls of utils.save_model by this process
    savedAt,            \* loop index of this process's latest save, -1 if none
    scheduler,          \* ReduceLROnPlateau: number of step() calls and the last metric
    counts,             \* per process: trainEpoch calls, valEpoch calls, policy runs, test plots
    runs,               \* process starts so far
    uninterrupted       \* best_sensit of the run that is never interrupted

vars == <<args_dict, data, pc, error, model, printed, dl, te, epoch, best_sensit,
          pat_track, accuracy, sensitivity_covid, checkpoint, saves, savedAt,
          scheduler, counts, runs, uninterrupted>>

\* ----------------------------------------------------------------- helpers
Max(a, b) == IF a >= b THEN a ELSE b

Min(a, b) == IF a <= b THEN a ELSE b

\* int(x) of a non-negative product num / den: truncation.
IntTrunc(num, den) == num \div den

\* round(x) of Python 3 for a non-negative num / den: half to even.
PyRound(num, den) ==
    LET q == num \div den
        r == num % den
    IN  IF 2 * r < den THEN q
        ELSE IF 2 * r > den THEN q + 1
        ELSE IF q % 2 = 0 THEN q ELSE q + 1

\* ------------------------------------------------ calculateDataLoaderTrain
CovidSizeRounded(batch, covid_num) == Max(PyRound(batch * covid_num, FracDen), 1)

\* covid_size = max(int(args_dict.batch * args_dict.covid_percent), 1)
CovidSize(batch, covid_num) == Max(IntTrunc(batch * covid_num, FracDen), 1)

\* batch_size of dl_non_covid
NonCovidSize(batch, covid_num) == batch - CovidSize(batch, covid_num)

\* len(DataLoader) with drop_last = False: ceil(n / batch_size)
NumBatches(n, batch_size) == (n + batch_size - 1) \div batch_size

\* number of samples in batch idx (zero-based) of a DataLoader with drop_last = False
BatchLen(n, batch_size, idx) == Min(batch_size, n - idx * batch_size)

NoLoaders == [built |-> FALSE, nc_bs |-> 0, c_bs |-> 0]

\* ------------------------------------------------------------- trainEpoch
NoTrainEpoch ==
    [batch_idx |-> 0, n_nc |-> 0, n_c |-> 0, loss_n |-> 0, acc_n |-> 0,
     draws |-> 0, updates |-> 0, opt_calls |-> <<>>, opt_steps |-> 0]

\* the weight handed to losses.update and accuracies.update: x_batch[0].size(0),
\* the first dimension of the first sample of the combined batch
MeterWeight(channels, n_nc, n_c) == channels

\* ------------------------------------------------------------ train_model
NoCheckpoint ==
    [exists |-> FALSE, epoch |-> 0, best_sensit |-> 0, valtrack |-> 0, curr_val |-> 0]

SavedStateBestFromAccuracy(ep, best, pat, acc) ==
    [exists |-> TRUE, epoch |-> ep + 1, best_sensit |-> acc, valtrack |-> pat,
     curr_val |-> acc]

SavedStateEpochIndex(ep, best, pat, acc) ==
    [exists |-> TRUE, epoch |-> ep, best_sensit |-> best, valtrack |-> pat,
     curr_val |-> acc]

\* the dictionary handed to utils.save_model
SavedState(ep, best, pat, acc) ==
    [exists |-> TRUE, epoch |-> ep + 1, best_sensit |-> best, valtrack |-> pat,
     curr_val |-> acc]

\* checkpoint files an earlier run of this program can have left
PriorCheckpoints == {SavedState(0, b, 0, 85) : b \in {75, 80}}

GatePassesStrict(acc) == acc > AccThreshold

\* if accuracy >= 0.80
GatePasses(acc) == acc >= AccThreshold

IsBestOrEqual(sens, best) == sens >= best

\* is_best = sensitivity_covid > best_sensit
IsBest(sens, best) == sens > best

\* best_sensit = max(sensitivity_covid, best_sensit)
NewBest(sens, best) == Max(sens, best)

\* utils.resume: the best sensitivity of the checkpoint when resuming, else 0
ResumedBest(resume, ckpt) == IF resume /\ ckpt.exists THEN ckpt.best_sensit ELSE 0

LoopPcs == {"train", "val", "sched", "policy", "plot", "done"}

LoopHead(done, epochs) == IF done < epochs THEN "train" ELSE "done"

NoCounts == [train |-> 0, val |-> 0, policy |-> 0, plots |-> 0]

NoScheduler == [steps |-> 0, metric |-> 0]

\* the state of a process that has just entered train_model
Start(a, d, ckpt, r) ==
    /\ args_dict = a
    /\ data = d
    /\ checkpoint = ckpt
    /\ runs = r
    /\ pc = "select"
    /\ error = ""
    /\ model = "unbound"
    /\ printed = FALSE
    /\ dl = NoLoaders
    /\ te = NoTrainEpoch
    /\ epoch = 0
    /\ best_sensit = 0
    /\ pat_track = 0
    /\ accuracy = 0
    /\ sensitivity_covid = 0
    /\ saves = 0
    /\ savedAt = -1
    /\ scheduler = NoScheduler
    /\ counts = NoCounts
    /\ uninterrupted = ResumedBest(a.resume, ckpt)

Init ==
    \E m \in Models, e \in 0..MaxEpochs, ckpt \in {NoCheckpoint} \cup PriorCheckpoints :
        Start([model |-> m, batch |-> MaxBatch, covid_num |-> 1, epochs |-> e,
               resume |-> ckpt.exists],
              [n_non_covid |-> MaxPool, n_covid |-> 1, channels |-> 3],
              ckpt, 1)

\* lines 90-93: neither branch binds `model` for an unknown tag
SelectModel ==
    /\ pc = "select"
    /\ model' = IF args_dict.model = "covidnet" THEN "CovidNet"
                ELSE IF args_dict.model = "resnet" THEN "ResNet"
                ELSE model
    /\ pc' = "print"
    /\ UNCHANGED <<args_dict, data, error, printed, dl, te, epoch, best_sensit,
                   pat_track, accuracy, sensitivity_covid, checkpoint, saves, savedAt,
                   scheduler, counts, runs, uninterrupted>>

\* line 95: prints args_dict.model, which is always bound
PrintSelected ==
    /\ pc = "print"
    /\ printed' = TRUE
    /\ pc' = "to_device"
    /\ UNCHANGED <<args_dict, data, error, model, dl, te, epoch, best_sensit,
                   pat_track, accuracy, sensitivity_covid, checkpoint, saves, savedAt,
                   scheduler, counts, runs, uninterrupted>>

\* line 97: the first read of the local `model`
ModelToDevice ==
    /\ pc = "to_device"
    /\ IF model = "unbound"
       THEN pc' = "error" /\ error' = "UnboundLocalError"
       ELSE pc' = "optimizer" /\ error' = error
    /\ UNCHANGED <<args_dict, data, model, printed, dl, te, epoch, best_sensit,
                   pat_track, accuracy, sensitivity_covid, checkpoint, saves, savedAt,
                   scheduler, counts, runs, uninterrupted>>

\* lines 100-101
BuildOptimizer ==
    /\ pc = "optimizer"
    /\ pc' = "resume"
    /\ UNCHANGED <<args_dict, data, error, model, printed, dl, te, epoch, best_sensit,
                   pat_track, accuracy, sensitivity_covid, checkpoint, saves, savedAt,
                   scheduler, counts, runs, uninterrupted>>

\* lines 104-105
Resume ==
    /\ pc = "resume"
    /\ best_sensit' = ResumedBest(args_dict.resume, checkpoint)
    /\ scheduler' = NoScheduler
    /\ pc' = "loaders"
    /\ UNCHANGED <<args_dict, data, error, model, printed, dl, te, epoch,
                   pat_track, accuracy, sensitivity_covid, checkpoint, saves, savedAt,
                   counts, runs, uninterrupted>>

\* lines 108-115: calculateDataLoaderTrain (DataLoader refuses a batch_size
\* that is not positive), the test loader, pat_track = 0 and the loop head
LoadData ==
    /\ pc = "loaders"
    /\ LET c  == CovidSize(args_dict.batch, args_dict.covid_num)
           nc == NonCovidSize(args_dict.batch, args_dict.covid_num)
       IN  IF nc <= 0
           THEN /\ pc' = "error"
                /\ error' = "ValueError"
                /\ UNCHANGED <<dl, pat_track>>
           ELSE /\ dl' = [built |-> TRUE, nc_bs |-> nc, c_bs |-> c]
                /\ pat_track' = 0
                /\ pc' = LoopHead(0, args_dict.epochs)
                /\ error' = error
    /\ UNCHANGED <<args_dict, data, model, printed, te, epoch, best_sensit,
                   accuracy, sensitivity_covid, checkpoint, saves, savedAt,
                   scheduler, counts, runs, uninterrupted>>

\* lines 53-81: one iteration of the loop over dl_non_covid
TrainBatch ==
    /\ pc = "train"
    /\ te.batch_idx < NumBatches(data.n_non_covid, dl.nc_bs)
    /\ LET n_nc == BatchLen(data.n_non_covid, dl.nc_bs, te.batch_idx)
           n_c  == BatchLen(data.n_covid, dl.c_bs, 0)
           w    == MeterWeight(data.channels, n_nc, n_c)
       IN  te' = [batch_idx |-> te.batch_idx + 1,
                  n_nc      |-> n_nc,
                  n_c       |-> n_c,
                  loss_n    |-> w,
                  acc_n     |-> w,
                  draws     |-> te.draws + 1,
                  updates   |-> te.updates + 1,
                  opt_calls |-> <<"zero_grad", "backward", "step">>,
                  opt_steps |-> te.opt_steps + 1]
    /\ UNCHANGED <<args_dict, data, pc, error, model, printed, dl, epoch, best_sensit,
                   pat_track, accuracy, sensitivity_covid, checkpoint, saves, savedAt,
                   scheduler, counts, runs, uninterrupted>>

\* lines 83-85: dl_non_covid is exhausted, the train series are plotted and
\* trainEpoch returns
TrainEpochEnd ==
    /\ pc = "train"
    /\ te.batch_idx = NumBatches(data.n_non_covid, dl.nc_bs)
    /\ te' = NoTrainEpoch
    /\ counts' = [counts EXCEPT !.train = @ + 1]
    /\ pc' = "val"
    /\ UNCHANGED <<args_dict, data, error, model, printed, dl, epoch, best_sensit,
                   pat_track, accuracy, sensitivity_covid, checkpoint, saves, savedAt,
                   scheduler, runs, uninterrupted>>

\* line 122
Validate ==
    /\ pc = "val"
    /\ \E s \in MetricValues, a \in MetricValues :
          /\ sensitivity_covid' = s
          /\ accuracy' = a
    /\ counts' = [counts EXCEPT !.val = @ + 1]
    /\ pc' = "sched"
    /\ UNCHANGED <<args_dict, data, error, model, printed, dl, te, epoch, best_sensit,
                   pat_track, checkpoint, saves, savedAt, scheduler, runs,
                   uninterrupted>>

SchedulerStepGated ==
    /\ pc = "sched"
    /\ scheduler' = IF GatePasses(accuracy)
                    THEN [steps |-> scheduler.steps + 1, metric |-> accuracy]
                    ELSE scheduler
    /\ pc' = "policy"
    /\ UNCHANGED <<args_dict, data, error, model, printed, dl, te, epoch, best_sensit,
                   pat_track, accuracy, sensitivity_covid, checkpoint, saves, savedAt,
                   counts, runs, uninterrupted>>

\* line 124
SchedulerStep ==
    /\ pc = "sched"
    /\ scheduler' = [steps |-> scheduler.steps + 1, metric |-> accuracy]
    /\ pc' = "policy"
    /\ UNCHANGED <<args_dict, data, error, model, printed, dl, te, epoch, best_sensit,
                   pat_track, accuracy, sensitivity_covid, checkpoint, saves, savedAt,
                   counts, runs, uninterrupted>>

CheckpointPolicyNoCompare ==
    /\ pc = "policy"
    /\ IF GatePasses(accuracy)
       THEN /\ best_sensit' = sensitivity_covid
            /\ checkpoint' = SavedState(epoch, sensitivity_covid, pat_track, accuracy)
            /\ saves' = saves + 1
            /\ savedAt' = epoch
       ELSE UNCHANGED <<best_sensit, checkpoint, saves, savedAt>>
    /\ uninterrupted' = best_sensit'
    /\ counts' = [counts EXCEPT !.policy = @ + 1]
    /\ pc' = "plot"
    /\ UNCHANGED <<args_dict, data, error, model, printed, dl, te, epoch,
                   pat_track, accuracy, sensitivity_covid, scheduler, runs>>

\* lines 126-142.  The run that is never interrupted applies the same rule to
\* the same validation result.
CheckpointPolicy ==
    /\ pc = "policy"
    /\ IF GatePasses(accuracy) /\ IsBest(sensitivity_covid, best_sensit)
       THEN /\ best_sensit' = NewBest(sensitivity_covid, best_sensit)
            /\ checkpoint' = SavedState(epoch, best_sensit', pat_track, accuracy)
            /\ saves' = saves + 1
            /\ savedAt' = epoch
       ELSE UNCHANGED <<best_sensit, checkpoint, saves, savedAt>>
    /\ uninterrupted' =
          IF GatePasses(accuracy) /\ IsBest(sensitivity_covid, uninterrupted)
          THEN NewBest(sensitivity_covid, uninterrupted)
          ELSE uninterrupted
    /\ counts' = [counts EXCEPT !.policy = @ + 1]
    /\ pc' = "plot"
    /\ UNCHANGED <<args_dict, data, error, model, printed, dl, te, epoch,
                   pat_track, accuracy, sensitivity_covid, scheduler, runs>>

\* lines 144-146 and the step of the for loop to the next index
PlotValidation ==
    /\ pc = "plot"
    /\ counts' = [counts EXCEPT !.plots = @ + 1]
    /\ epoch' = epoch + 1
    /\ pc' = LoopHead(epoch + 1, args_dict.epochs)
    /\ UNCHANGED <<args_dict, data, error, model, printed, dl, te, best_sensit,
                   pat_track, accuracy, sensitivity_covid, checkpoint, saves, savedAt,
                   scheduler, runs, uninterrupted>>

\* The process is stopped between two epochs (or after the last one) and
\* train_model is entered again with the resume path set to the checkpoint
\* file written last.
InterruptAndResume ==
    /\ pc \in {"train", "done"}
    /\ te.batch_idx = 0
    /\ checkpoint.exists
    /\ runs < MaxRuns
    /\ args_dict' = [args_dict EXCEPT !.resume = TRUE]
    /\ runs' = runs + 1
    /\ pc' = "select"
    /\ error' = ""
    /\ model' = "unbound"
    /\ printed' = FALSE
    /\ dl' = NoLoaders
    /\ te' = NoTrainEpoch
    /\ epoch' = 0
    /\ best_sensit' = 0
    /\ pat_track' = 0
    /\ accuracy' = 0
    /\ sensitivity_covid' = 0
    /\ saves' = 0
    /\ savedAt' = -1
    /\ scheduler' = NoScheduler
    /\ counts' = NoCounts
    /\ UNCHANGED <<data, checkpoint, uninterrupted>>

Next ==
    \/ SelectModel
    \/ PrintSelected
    \/ ModelToDevice
    \/ BuildOptimizer
    \/ Resume
    \/ LoadData
    \/ TrainBatch
    \/ TrainEpochEnd
    \/ Validate
    \/ SchedulerStep
    \/ CheckpointPolicy
    \/ PlotValidation
    \/ InterruptAndResume

Spec == Init /\ [][Next]_vars

\* --------------------------------------------------------------------------
\* calculateDataLoaderTrain and trainEpoch applied to every configuration:
\* the process stands before line 108 with a model selected, and runs the
\* loader construction and one training epoch.
InitSampler ==
    \E b \in 1..MaxBatch, k \in 0..FracDen, n \in 1..MaxPool, c \in 1..MaxPool,
       ch \in ImageChannels :
        /\ args_dict = [model |-> "covidnet", batch |-> b, covid_num |-> k,
                        epochs |-> 1, resume |-> FALSE]
        /\ data = [n_non_covid |-> n, n_covid |-> c, channels |-> ch]
        /\ checkpoint = NoCheckpoint
        /\ runs = 1
        /\ pc = "loaders"
        /\ error = ""
        /\ model = "CovidNet"
        /\ printed = TRUE
        /\ dl = NoLoaders
        /\ te = NoTrainEpoch
        /\ epoch = 0
        /\ best_sensit = 0
        /\ pat_track = 0
        /\ accuracy = 0
        /\ sensitivity_covid = 0
        /\ saves = 0
        /\ savedAt = -1
        /\ scheduler = NoScheduler
        /\ counts = NoCounts
        /\ uninterrupted = 0

NextSampler ==
    \/ LoadData
    \/ TrainBatch
    \/ TrainEpochEnd

SpecSampler == InitSampler /\ [][NextSampler]_vars

\* ==========================================================================
\* Claims
\* ==========================================================================

InLoop == pc \in LoopPcs /\ pc' \in LoopPcs

\* C1: in every epoch a checkpoint is saved (utils.save_model is called, the
\* checkpoint file changes) if and only if accuracy >= 0.80 and the sensitivity
\* is strictly greater than the best sensitivity held before the epoch; no
\* other step of the loop saves.
C1_SaveIff ==
    [][InLoop =>
         /\ saves' \in {saves, saves + 1}
         /\ (saves' = saves + 1) <=> (checkpoint' # checkpoint)
         /\ (saves' = saves + 1) <=>
               (pc = "policy" /\ accuracy >= 80 /\ sensitivity_covid > best_sensit)]_vars

\* C1 witness: an epoch at the accuracy boundary 0.80 has saved.
C1_Witness ==
    /\ pc = "plot"
    /\ accuracy = 80
    /\ savedAt = epoch
    /\ checkpoint.curr_val = 80

\* C2: from one step of the epoch loop to the next, whatever the validation
\* results and the initial (zero or resumed) value, the best sensitivity
\* never decreases.
C2_NonDecreasing == [][InLoop => best_sensit' >= best_sensit]_vars

\* C2 witness: a run resumed from best 0.75 has raised it twice.
C2_Witness ==
    /\ pc = "done"
    /\ args_dict.resume
    /\ runs = 1
    /\ saves = 2
    /\ best_sensit > 80

\* C3: the best sensitivity changes only in a step that writes a checkpoint,
\* and becomes that epoch's sensitivity; with accuracy < 0.80, or with a
\* sensitivity that does not exceed the best, the policy step leaves the best
\* sensitivity and the checkpoint file alone and saves nothing.
C3_FrameEffect ==
    [][InLoop =>
         /\ best_sensit' # best_sensit =>
               /\ pc = "policy"
               /\ saves' = saves + 1
               /\ checkpoint' # checkpoint
               /\ best_sensit' = sensitivity_covid
         /\ (pc = "policy" /\ (accuracy < 80 \/ sensitivity_covid <= best_sensit)) =>
               /\ best_sensit' = best_sensit
               /\ saves' = saves
               /\ checkpoint' = checkpoint]_vars

\* C3 witness: accuracy 0.79 and sensitivity 0.95 against a best of 0.80 have
\* been through the policy and nothing was saved in that epoch.
C3_Witness ==
    /\ pc = "plot"
    /\ accuracy = 79
    /\ sensitivity_covid = 95
    /\ best_sensit = 80
    /\ savedAt # epoch

Consumed == pc = "train" /\ te.batch_idx > 0

C5_Sequence ==
    LET Done(t, v, s, p, g) ==
            /\ counts.train = t
            /\ counts.val = v
            /\ scheduler.steps = s
            /\ counts.policy = p
            /\ counts.plots = g
    IN  /\ pc = "train"  => Done(epoch, epoch, epoch, epoch, epoch)
        /\ pc = "val"    => Done(epoch + 1, epoch, epoch, epoch, epoch)
        /\ pc = "sched"  => Done(epoch + 1, epoch + 1, epoch, epoch, epoch)
        /\ pc = "policy" => /\ Done(epoch + 1, epoch + 1, epoch + 1, epoch, epoch)
                            /\ scheduler.metric = accuracy
        /\ pc = "plot"   => /\ Done(epoch + 1, epoch + 1, epoch + 1, epoch + 1, epoch)
                            /\ scheduler.metric = accuracy
        /\ pc = "done"   => /\ Done(epoch, epoch, epoch, epoch, epoch)
                            /\ epoch = args_dict.epochs
        /\ pc \in LoopPcs \ {"train"} => te = NoTrainEpoch

\* C5 witness: the second epoch failed the accuracy gate and the run is over.
C5_Witness ==
    /\ pc = "done"
    /\ epoch = 2
    /\ accuracy = 79
    /\ scheduler.steps = 2
    /\ counts.plots = 2

\* C6: a run resumed from the checkpoint written last holds, at every point
\* of its epoch loop, the best sensitivity the uninterrupted run holds after
\* the same validation results.
C6_ResumeEquivalence ==
    (runs > 1 /\ pc \in LoopPcs) => best_sensit = uninterrupted

\* C6 witness: a resumed run has improved on the checkpoint it started from.
C6_Witness ==
    /\ runs > 1
    /\ pc = "plot"
    /\ savedAt = epoch
    /\ best_sensit = 95

\* C7 as claimed: a model choice that is neither "covidnet" nor "resnet" is
\* rejected at the selection with an unknown-model error, before the selected
\* model is printed and before any later step.
C7_Claim ==
    args_dict.model \notin {"covidnet", "resnet"} =>
        /\ ~printed
        /\ pc \in {"select", "error"}
        /\ pc = "error" => error = "UnknownModel"

\* C8 as claimed: values outside [0, 1] are rejected; the best sensitivity
\* and the saved checkpoint only ever hold values in [0, 1].
C8_Claim ==
    pc \in LoopPcs =>
        /\ best_sensit \in 0..100
        /\ checkpoint.exists =>
              /\ checkpoint.best_sensit \in 0..100
              /\ checkpoint.curr_val \in 0..100

\* C9 as claimed: per non-covid batch one covid batch is drawn, one optimizer
\* step is made (zero_grad, backward, step) and each running average is
\* updated once with the number of samples of the combined batch as weight.
C9_Claim ==
    Consumed =>
        /\ te.draws = te.batch_idx
        /\ te.opt_steps = te.batch_idx
        /\ te.opt_calls = <<"zero_grad", "backward", "step">>
        /\ te.updates = te.batch_idx
        /\ te.loss_n = te.n_nc + te.n_c
        /\ te.acc_n = te.n_nc + te.n_c

C10_Agrees ==
    savedAt >= 0 =>
        /\ saves >= 1
        /\ checkpoint.exists
        /\ checkpoint.best_sensit = best_sensit
        /\ checkpoint.curr_val >= 80
        /\ checkpoint.epoch = savedAt + 1
        /\ checkpoint.valtrack = 0
        /\ pc = "plot" /\ counts.policy = saves => checkpoint.epoch <= epoch + 1

\* C10: once this run has written a checkpoint, the checkpoint written last
\* agrees with memory: its best_sensit is the current best sensitivity, its
\* curr_val is >= 0.80, its epoch is the loop index of the saving epoch plus
\* one, its valtrack is 0; and each checkpoint's best_sensit is strictly
\* greater than that of the checkpoint it replaces.
C10_CheckpointAgrees ==
    /\ []C10_Agrees
    /\ [][(saves' = saves + 1 /\ checkpoint.exists) =>
             checkpoint'.best_sensit > checkpoint.best_sensit]_vars

\* C10 witness: the second epoch has written the run's second checkpoint.
C10_Witness ==
    /\ pc = "plot"
    /\ saves = 2
    /\ savedAt = 1
    /\ checkpoint.epoch = 2

====
